---- MODULE Spec2Model ----
(***************************************************************************)
(* Model of the powder simulation of src/src/main.rs: the World (a grid of *)
(* Particles and the clock parity), World::update (one tick, modelled one  *)
(* loop iteration per step, with the position of the scan as state) and    *)
(* World::set_pixel (the paint interface).                                 *)
(*                                                                         *)
(* The grid is scaled down from 320 x 240; its size is the pair of         *)
(* variables width, height, fixed by the initial state, so that every      *)
(* specification chooses the grid its scenario needs.                      *)
(*                                                                         *)
(* History variables (they never influence the program's state):           *)
(*   lastOp    the operation that produced the current state, with its     *)
(*             arguments, the random draws it consumed and the move made;  *)
(*             for set_pixel, old is the kind the target cell held before  *)
(*   acc       the cell indices (<<x, y>>) read or written by that step    *)
(*   hist      per cell, for the particle now in that cell: how many times *)
(*             it changed cell in the current tick (moves) and how many of *)
(*             those were moves of its own rule (own)                      *)
(*   arrivals  per cell: how many Water moves (w) and how many Sand or     *)
(*             Gravel moves (s) had that cell as destination this tick     *)
(***************************************************************************)
EXTENDS Integers, FiniteSets, Sequences, TLC

\* GRID_WIDTH and GRID_HEIGHT, scaled down, for the main specification.
GridW == 3
GridH == 3

\* The grid of the specification SpecWide: every distance Water draws (up
\* to 4 columns) fits in it, and its two rows are a top and a bottom row.
WideW == 5
WideH == 2

\* Bound of the specification SpecWide: calls of update (the first scans the
\* columns in ascending order, the second in descending order).
WideTicks == 2

\* Bound of the specification SpecFlow: calls of update.
FlowTicks == 1

\* Bound of the specification SpecMirror: calls of update.
MirrorTicks == 1

\* Bounds of the specification SpecFall: the largest grid, the calls of update.
FallW == 4
FallH == 6
FallTicks == 6

\* Bounds of the main specification: calls of set_pixel, calls of update.
MaxPaints == 2
MaxTicks == 2

VARIABLES width, height, particles, clock, pc, row, col, ticks, paints,
          lastOp, acc, hist, arrivals, twin

vars == <<width, height, particles, clock, pc, row, col, ticks, paints,
          lastOp, acc, hist, arrivals, twin>>

\* enum Kind
Kinds == {"Empty", "Sand", "Gravel", "Water", "Stone"}

\* impl Default for Particle
DefaultTouched == [kind |-> "Empty", touched |-> TRUE]
Default == [kind |-> "Empty", touched |-> FALSE]

\* Particle::empty
empty(p) == p.kind = "Empty"

\* A coordinate is inside the grid (the index check of particles[y][x]).
InGrid(x, y) == x >= 0 /\ x < width /\ y >= 0 /\ y < height

\* particles[y][x]: an index outside the grid panics; the step that makes
\* such an access is detected through acc and ends the program (pc = "panic"),
\* so the value returned here for it is never used.
At(g, x, y) == IF InGrid(x, y) THEN g[y][x] ELSE Default

\* rng.gen::<bool>() as i32 * 2 - 1
Sign(b) == (IF b THEN 1 ELSE 0) * 2 - 1

\* new_x >= 0 && new_x < GRID_WIDTH as i32
XValidNoLower(nx) == nx < width
XValid(nx) == nx >= 0 /\ nx < width

\* y < GRID_HEIGHT - 1
DownValid(y) == y < height - 1

\* The test guarding every Sand and Gravel exchange:
\* particles[..].empty() || particles[..].kind == Kind::Water
SinkIntoEmptyOnly(p) == p.kind = "Empty"
SinkIntoAnything(p) == p.kind # "Sand" /\ p.kind # "Gravel"
SinkInto(p) == empty(p) \/ p.kind = "Water"

\* The test guarding every Water destination: particles[..].empty()
WaterEntersLikeSand(p) == empty(p) \/ p.kind = "Water"
WaterEnters(p) == empty(p)

\* The random draws of one loop iteration. b0: the sign of Sand's diagonal;
\* n1, b1: distance and sign of Water's first candidate; b4: the sign of its
\* lateral candidate; n5, b5: distance and sign of its third candidate.
NoDraw == [b0 |-> FALSE, n1 |-> 1, b1 |-> FALSE, b4 |-> FALSE, n5 |-> 2, b5 |-> FALSE]

SandDraws == {[NoDraw EXCEPT !.b0 = b] : b \in BOOLEAN}

WaterDraws ==
    {[b0 |-> FALSE, n1 |-> n1, b1 |-> b1, b4 |-> b4, n5 |-> n5, b5 |-> b5] :
        n1 \in 1..2, b1 \in BOOLEAN, b4 \in BOOLEAN, n5 \in 2..4, b5 \in BOOLEAN}

\* The draws the iteration on cell (x, y) consumes: Sand draws only in its
\* else branch, Water only when it does not fall, the other kinds never.
Draws(g, x, y) ==
    LET k == g[y][x].kind IN
    IF k = "Sand" /\ DownValid(y) /\ ~SinkInto(At(g, x, y + 1)) THEN SandDraws
    ELSE IF k = "Water" /\ ~(DownValid(y) /\ empty(At(g, x, y + 1))) THEN WaterDraws
    ELSE {NoDraw}

\* The outcome of a movement rule: no move, an exchange of the two cells, or
\* the source copied to the destination and the source reset to the default.
Stay == [type |-> "stay", dx |-> 0, dy |-> 0]
Swap(dx, dy) == [type |-> "swap", dx |-> dx, dy |-> dy]
Overwrite(dx, dy) == [type |-> "overwrite", dx |-> dx, dy |-> dy]

\* Kind::Sand => { ... }: straight down first, else one random diagonal.
SandMoveDiagonalFirst(g, x, y, d) ==
    LET new_y == y + 1
        new_x == x + Sign(d.b0)
    IN  IF DownValid(y)
        THEN IF XValid(new_x) /\ SinkInto(At(g, new_x, new_y))
             THEN Swap(new_x, new_y)
             ELSE IF SinkInto(At(g, x, y + 1)) THEN Swap(x, y + 1) ELSE Stay
        ELSE Stay
SandMove(g, x, y, d) ==
    LET new_y == y + 1
        new_x == x + Sign(d.b0)
    IN  IF DownValid(y)
        THEN IF SinkInto(At(g, x, y + 1))
             THEN Swap(x, y + 1)
             ELSE IF XValid(new_x) /\ SinkInto(At(g, new_x, new_y))
                  THEN Swap(new_x, new_y)
                  ELSE Stay
        ELSE Stay

\* The cells Sand's rule indexes besides its own, in evaluation order
\* (&& and || evaluate their right operand only when needed).
SandReads(g, x, y, d) ==
    LET new_y == y + 1
        new_x == x + Sign(d.b0)
    IN  IF DownValid(y)
        THEN {<<x, y + 1>>} \cup
             (IF SinkInto(At(g, x, y + 1)) THEN {}
              ELSE IF XValid(new_x) THEN {<<new_x, new_y>>} ELSE {})
        ELSE {}

\* Kind::Gravel => { ... }: straight down only.
GravelMoveDiagonal(g, x, y) ==
    IF DownValid(y) /\ SinkInto(At(g, x, y + 1)) THEN Swap(x, y + 1)
    ELSE IF DownValid(y) /\ XValid(x + 1) /\ SinkInto(At(g, x + 1, y + 1))
    THEN Swap(x + 1, y + 1)
    ELSE Stay
GravelMove(g, x, y) ==
    IF DownValid(y) /\ SinkInto(At(g, x, y + 1)) THEN Swap(x, y + 1) ELSE Stay

GravelReads(g, x, y) == IF DownValid(y) THEN {<<x, y + 1>>} ELSE {}

\* Kind::Water => { ... }: fall into an Empty cell, else the first satisfied
\* of three candidates.
WaterMoveUngated(g, x, y, d) ==
    LET down_valid == DownValid(y)
        new_y == y + 1
        new_x1 == x + d.n1 * Sign(d.b1)
        check_x1 == x + (d.n1 - 1) * Sign(d.b1)
        new_x1_valid == XValid(new_x1)
        new_x4 == x - Sign(d.b4)
        new_x4_valid == XValid(new_x4)
        new_x5 == x + d.n5 * Sign(d.b5)
        check_x5 == x + (d.n5 - 1) * Sign(d.b5)
        new_x5_valid == XValid(new_x5)
    IN  IF down_valid /\ WaterEnters(At(g, x, y + 1))
        THEN Overwrite(x, y + 1)
        ELSE IF /\ down_valid
                /\ new_x1_valid
                /\ WaterEnters(At(g, new_x1, new_y))
                /\ At(g, check_x1, new_y).kind = "Water"
        THEN Overwrite(new_x1, new_y)
        ELSE IF new_x4_valid /\ WaterEnters(At(g, new_x4, y))
        THEN Overwrite(new_x4, y)
        ELSE IF /\ down_valid
                /\ new_x5_valid
                /\ WaterEnters(At(g, new_x5, y))
        THEN Overwrite(new_x5, y)
        ELSE Stay
WaterMove(g, x, y, d) ==
    LET down_valid == DownValid(y)
        new_y == y + 1
        new_x1 == x + d.n1 * Sign(d.b1)
        check_x1 == x + (d.n1 - 1) * Sign(d.b1)
        new_x1_valid == XValid(new_x1)
        new_x4 == x - Sign(d.b4)
        new_x4_valid == XValid(new_x4)
        new_x5 == x + d.n5 * Sign(d.b5)
        check_x5 == x + (d.n5 - 1) * Sign(d.b5)
        new_x5_valid == XValid(new_x5)
    IN  IF down_valid /\ WaterEnters(At(g, x, y + 1))
        THEN Overwrite(x, y + 1)
        ELSE IF /\ down_valid
                /\ new_x1_valid
                /\ WaterEnters(At(g, new_x1, new_y))
                /\ At(g, check_x1, new_y).kind = "Water"
        THEN Overwrite(new_x1, new_y)
        ELSE IF new_x4_valid /\ WaterEnters(At(g, new_x4, y))
        THEN Overwrite(new_x4, y)
        ELSE IF /\ down_valid
                /\ new_x5_valid
                /\ WaterEnters(At(g, new_x5, y))
                /\ At(g, check_x5, new_y).kind = "Water"
        THEN Overwrite(new_x5, y)
        ELSE Stay

\* The cells Water's rule indexes besides its own, in evaluation order.
WaterReads(g, x, y, d) ==
    LET down_valid == DownValid(y)
        new_y == y + 1
        new_x1 == x + d.n1 * Sign(d.b1)
        check_x1 == x + (d.n1 - 1) * Sign(d.b1)
        new_x1_valid == XValid(new_x1)
        new_x4 == x - Sign(d.b4)
        new_x4_valid == XValid(new_x4)
        new_x5 == x + d.n5 * Sign(d.b5)
        check_x5 == x + (d.n5 - 1) * Sign(d.b5)
        new_x5_valid == XValid(new_x5)
        c1 == /\ down_valid
              /\ new_x1_valid
              /\ WaterEnters(At(g, new_x1, new_y))
              /\ At(g, check_x1, new_y).kind = "Water"
        r1 == IF down_valid /\ new_x1_valid
              THEN {<<new_x1, new_y>>} \cup
                   (IF WaterEnters(At(g, new_x1, new_y))
                    THEN {<<check_x1, new_y>>} ELSE {})
              ELSE {}
        c4 == new_x4_valid /\ WaterEnters(At(g, new_x4, y))
        r4 == IF new_x4_valid THEN {<<new_x4, y>>} ELSE {}
        r5 == IF down_valid /\ new_x5_valid
              THEN {<<new_x5, y>>} \cup
                   (IF WaterEnters(At(g, new_x5, y))
                    THEN {<<check_x5, new_y>>} ELSE {})
              ELSE {}
    IN  (IF down_valid THEN {<<x, y + 1>>} ELSE {}) \cup
        (IF down_valid /\ WaterEnters(At(g, x, y + 1)) THEN {}
         ELSE r1 \cup (IF c1 THEN {} ELSE r4 \cup (IF c4 THEN {} ELSE r5)))

\* match self.particles[y][x].kind { ... }
Move(g, x, y, d) ==
    LET k == g[y][x].kind IN
    IF k = "Sand" THEN SandMove(g, x, y, d)
    ELSE IF k = "Gravel" THEN GravelMove(g, x, y)
    ELSE IF k = "Water" THEN WaterMove(g, x, y, d)
    ELSE Stay

Reads(g, x, y, d) ==
    LET k == g[y][x].kind IN
    {<<x, y>>} \cup
    (IF k = "Sand" THEN SandReads(g, x, y, d)
     ELSE IF k = "Gravel" THEN GravelReads(g, x, y)
     ELSE IF k = "Water" THEN WaterReads(g, x, y, d)
     ELSE {})

\* The assignments of the taken branch: the three-assignment exchange of
\* Sand and Gravel, or Water's copy followed by Particle::default().
ApplyMoveNoReset(g, x, y, mv) ==
    IF mv.type = "swap"
    THEN [g EXCEPT ![y][x] = g[mv.dy][mv.dx], ![mv.dy][mv.dx] = g[y][x]]
    ELSE IF mv.type = "overwrite"
    THEN [g EXCEPT ![mv.dy][mv.dx] = g[y][x]]
    ELSE g
ApplyMove(g, x, y, mv) ==
    IF mv.type = "swap"
    THEN [g EXCEPT ![y][x] = g[mv.dy][mv.dx], ![mv.dy][mv.dx] = g[y][x]]
    ELSE IF mv.type = "overwrite"
    THEN [g EXCEPT ![mv.dy][mv.dx] = g[y][x], ![y][x] = Default]
    ELSE g

\* self.particles[y][x].touched = !self.particles[y][x].touched
TouchForgotten(g, x, y) == g
Touch(g, x, y) == [g EXCEPT ![y][x].touched = ~@]

\* x_ord_hack: ascending x when the clock is true, descending otherwise.
x_ord_hack_ascending(c, i) == i
x_ord_hack(c, i) == IF c THEN i ELSE width - 1 - i

\* World::set_pixel
set_pixel_unguarded(g, c, x, y, kind) ==
    IF x < width /\ y < height
    THEN [g EXCEPT ![y][x] = [kind |-> kind, touched |-> c]]
    ELSE g
set_pixel_default_marker(g, c, x, y, kind) ==
    IF x < width /\ y < height /\ (kind = "Empty" \/ empty(At(g, x, y)))
    THEN [g EXCEPT ![y][x] = [kind |-> kind, touched |-> FALSE]]
    ELSE g
set_pixel_never_overwrites(g, c, x, y, kind) ==
    IF x < width /\ y < height /\ empty(At(g, x, y))
    THEN [g EXCEPT ![y][x] = [kind |-> kind, touched |-> c]]
    ELSE g
set_pixel(g, c, x, y, kind) ==
    IF x < width /\ y < height /\ (kind = "Empty" \/ empty(At(g, x, y)))
    THEN [g EXCEPT ![y][x] = [kind |-> kind, touched |-> c]]
    ELSE g

\* The cells set_pixel indexes.
set_pixel_reads(x, y, kind) ==
    IF x < width /\ y < height THEN {<<x, y>>} ELSE {}

----------------------------------------------------------------------------
\* History bookkeeping.

ZeroHist == [moves |-> 0, own |-> 0, proc |-> 0]
ZeroArr == [w |-> 0, s |-> 0]
Cells == (0 .. width - 1) \X (0 .. height - 1)
Cells3x3 == (0 .. 2) \X (0 .. 2)
NoOp == [op |-> "new", x |-> 0, y |-> 0, kind |-> "Empty", old |-> "Empty",
         d |-> NoDraw, mv |-> Stay]

\* hist follows the particles: a particle that passes the skip test has been
\* processed once more; the mover makes one move of its own, the particle it
\* exchanged with (if any) is displaced once.
HistAfter(h, g, x, y, mv) ==
    LET h1 == IF empty(g[y][x]) THEN h ELSE [h EXCEPT ![y][x].proc = @ + 1]
    IN  IF mv.type = "stay" THEN h1
        ELSE [h1 EXCEPT
                ![mv.dy][mv.dx] = [h1[y][x] EXCEPT !.moves = @ + 1, !.own = @ + 1],
                ![y][x] = IF mv.type = "swap" /\ ~empty(g[mv.dy][mv.dx])
                          THEN [h1[mv.dy][mv.dx] EXCEPT !.moves = @ + 1]
                          ELSE ZeroHist]

ArrivalsAfter(a, g, x, y, mv) ==
    IF mv.type = "stay" THEN a
    ELSE IF g[y][x].kind = "Water"
    THEN [a EXCEPT ![mv.dy][mv.dx].w = @ + 1]
    ELSE [a EXCEPT ![mv.dy][mv.dx].s = @ + 1]

----------------------------------------------------------------------------
\* The twin: a second World of the same size, on which the same calls of
\* update run with every sign draw negated. It is switched on by the
\* specification SpecMirror only.

NoTwin == [on |-> FALSE, particles |-> <<>>, clock |-> FALSE, sync |-> TRUE]

\* The horizontal mirror image of a grid.
Mirror(g) == [y \in 0 .. height - 1 |-> [x \in 0 .. width - 1 |-> g[y][width - 1 - x]]]

\* The same distances, the opposite signs.
Negate(d) == [d EXCEPT !.b0 = ~@, !.b1 = ~@, !.b4 = ~@, !.b5 = ~@]

\* The draws the iteration on the cell (x, y) of the World (g, c) consumes.
CellDraws(g, c, x, y) ==
    IF g[y][x].touched = c THEN {NoDraw} ELSE Draws(g, x, y)

\* World::update on the twin, lines 77-84.
TwinBegin(t) == [t EXCEPT !.clock = ~@]

\* World::update on the twin, lines 86-178: the iteration number i of row y,
\* with the draws d of the first World negated; sync records that both
\* iterations consume the same draws.
TwinCell(t, i, y, wanted, d) ==
    LET x == x_ord_hack(t.clock, i)
        g == Touch(t.particles, x, y)
        nd == Negate(d)
        ok == \A p \in Reads(g, x, y, nd) : InGrid(p[1], p[2])
    IN  [t EXCEPT
            !.particles = IF t.particles[y][x].touched = t.clock THEN @
                          ELSE IF ok THEN ApplyMove(g, x, y, Move(g, x, y, nd))
                          ELSE g,
            !.sync = @ /\ CellDraws(t.particles, t.clock, x, y) = wanted]

----------------------------------------------------------------------------
\* World::new on a grid of w x h cells.
New(w, h) ==
    /\ width = w
    /\ height = h
    /\ particles = [y \in 0 .. h - 1 |-> [x \in 0 .. w - 1 |-> Default]]
    /\ clock = FALSE
    /\ pc = "idle"
    /\ row = 0
    /\ col = 0
    /\ ticks = 0
    /\ paints = 0
    /\ lastOp = NoOp
    /\ acc = {}
    /\ hist = [y \in 0 .. h - 1 |-> [x \in 0 .. w - 1 |-> ZeroHist]]
    /\ arrivals = [y \in 0 .. h - 1 |-> [x \in 0 .. w - 1 |-> ZeroArr]]
    /\ twin = NoTwin

Init == New(GridW, GridH)

\* The state after World::new on a grid of w x h cells, an even (c false) or
\* odd (c true) number of calls of update on the Empty grid, and then one
\* accepted set_pixel(x, y, kinds[<<x, y>>]) for every cell in the domain of
\* kinds: every cell has touched = c.
PaintedWorld(w, h, c, kinds) ==
    /\ width = w
    /\ height = h
    /\ particles = [y \in 0 .. h - 1 |-> [x \in 0 .. w - 1 |->
            [kind |-> IF <<x, y>> \in DOMAIN kinds THEN kinds[<<x, y>>] ELSE "Empty",
             touched |-> c]]]
    /\ clock = c
    /\ pc = "idle"
    /\ row = 0
    /\ col = 0
    /\ ticks = 0
    /\ paints = 0
    /\ lastOp = NoOp
    /\ acc = {}
    /\ hist = [y \in 0 .. h - 1 |-> [x \in 0 .. w - 1 |-> ZeroHist]]
    /\ arrivals = [y \in 0 .. h - 1 |-> [x \in 0 .. w - 1 |-> ZeroArr]]

Painted(w, h, c, kinds) == PaintedWorld(w, h, c, kinds) /\ twin = NoTwin

\* World::new on a wide, low grid.
InitWide == New(WideW, WideH)

\* Stasis: a 3 x 3 grid with Stone in the whole bottom row, Sand or Gravel
\* on it at (1, 1), any kind in each of the three cells next to and above
\* that particle, Empty or Water in the upper left corner and Empty in the
\* upper right one.
StasisNear == {<<1, 0>>, <<0, 1>>, <<2, 1>>}
InitStasis ==
    \E k \in {"Sand", "Gravel"}, near \in [StasisNear -> Kinds],
       far \in {"Empty", "Water"} :
        Painted(3, 3, FALSE, [p \in Cells3x3 |->
            IF p[2] = 2 THEN "Stone"
            ELSE IF p = <<1, 1>> THEN k
            ELSE IF p \in StasisNear THEN near[p]
            ELSE IF p = <<0, 0>> THEN far ELSE "Empty"])

\* Flow: the wide grid with Empty, Water or Stone in each cell of the bottom
\* row, one Water in a corner of the top row and a Stone beside it.
InitFlow ==
    \E bottom \in [0 .. WideW - 1 -> {"Empty", "Water", "Stone"}],
       wx \in {0, WideW - 1} :
        Painted(WideW, WideH, FALSE, [p \in (0 .. WideW - 1) \X (0 .. WideH - 1) |->
            IF p[2] = WideH - 1 THEN bottom[p[1]]
            ELSE IF p[2] = 0 /\ p[1] = wx THEN "Water"
            ELSE IF p[2] = 0 /\ p[1] = (IF wx = 0 THEN 1 ELSE WideW - 2)
                 THEN "Stone"
            ELSE "Empty"])

\* Mirror: a grid of GridW x WideH cells with clock false and touched = false
\* in every cell, Empty, Water or Stone in each cell of the bottom row and
\* Empty, Water or Sand in each cell of the top row (World::new, then one
\* set_pixel for every cell); the twin holds the mirror image with clock true
\* and touched = true in every cell (World::new, one update of the Empty
\* grid, then one set_pixel for every cell).
InitMirror ==
    \E bottom \in [0 .. GridW - 1 -> {"Empty", "Water", "Stone"}],
       top \in [0 .. GridW - 1 -> {"Empty", "Water", "Sand"}] :
        /\ PaintedWorld(GridW, WideH, FALSE,
                [c \in (0 .. GridW - 1) \X (0 .. WideH - 1) |->
                    IF c[2] = WideH - 1 THEN bottom[c[1]] ELSE top[c[1]]])
        /\ twin = [on |-> TRUE,
                   particles |-> [y \in 0 .. WideH - 1 |-> [x \in 0 .. GridW - 1 |->
                        LET k == IF y = WideH - 1 THEN bottom[GridW - 1 - x]
                                 ELSE top[GridW - 1 - x]
                        IN  [kind |-> k, touched |-> TRUE]]],
                   clock |-> TRUE,
                   sync |-> TRUE]

\* Straight fall: one Sand at (2, 0) on an otherwise Empty grid at least 3
\* wide and 5 high.
InitFall ==
    \E w \in 3 .. FallW, h \in 5 .. FallH, c \in BOOLEAN :
        Painted(w, h, c, [p \in {<<2, 0>>} |-> "Sand"])

\* Scenario: 3 x 3, Water at (0, 0), Stone in every cell of row 1.
InitScenario ==
    \E c \in BOOLEAN :
        Painted(3, 3, c, [p \in {<<0, 0>>, <<0, 1>>, <<1, 1>>, <<2, 1>>} |->
            IF p = <<0, 0>> THEN "Water" ELSE "Stone"])

\* World::update, lines 77-84: flip the clock, fix the column order, start
\* the scan at the bottom row.
Begin(limit) ==
    /\ pc = "idle"
    /\ ticks < limit
    /\ clock' = ~clock
    /\ pc' = "scan"
    /\ row' = height - 1
    /\ col' = 0
    /\ lastOp' = [NoOp EXCEPT !.op = "begin"]
    /\ acc' = {}
    /\ hist' = [y \in 0 .. height - 1 |-> [x \in 0 .. width - 1 |-> ZeroHist]]
    /\ arrivals' = [y \in 0 .. height - 1 |-> [x \in 0 .. width - 1 |-> ZeroArr]]
    /\ twin' = IF twin.on THEN TwinBegin(twin) ELSE twin
    /\ UNCHANGED <<width, height, particles, ticks, paints>>

UpdateBegin == Begin(MaxTicks)

\* World::update, lines 86-178: one iteration of the inner loop, on the cell
\* (x_ord_hack[col], row), then the step of the two loops; the call returns
\* after the last cell of the top row.
UpdateCell ==
    /\ pc = "scan"
    /\ LET x == x_ord_hack(clock, col)
           y == row
       IN  IF particles[y][x].touched = clock
           THEN /\ particles' = particles
                /\ lastOp' = [NoOp EXCEPT !.op = "skip", !.x = x, !.y = y,
                                          !.kind = particles[y][x].kind]
                /\ acc' = {<<x, y>>}
                /\ pc' = IF col = width - 1 /\ row = 0 THEN "idle" ELSE "scan"
                /\ UNCHANGED <<hist, arrivals>>
           ELSE \E d \in Draws(particles, x, y) :
                LET g == Touch(particles, x, y)
                    mv == Move(g, x, y, d)
                    rd == Reads(g, x, y, d)
                    ok == \A p \in rd : InGrid(p[1], p[2])
                IN  /\ acc' = rd
                    /\ lastOp' = [op |-> "cell", x |-> x, y |-> y,
                                  kind |-> g[y][x].kind, old |-> "Empty", d |-> d,
                                  mv |-> IF ok THEN mv ELSE Stay]
                    /\ particles' = IF ok THEN ApplyMove(g, x, y, mv) ELSE g
                    /\ hist' = IF ok THEN HistAfter(hist, g, x, y, mv) ELSE hist
                    /\ arrivals' = IF ok THEN ArrivalsAfter(arrivals, g, x, y, mv)
                                   ELSE arrivals
                    /\ pc' = IF ~ok THEN "panic"
                             ELSE IF col = width - 1 /\ row = 0 THEN "idle"
                             ELSE "scan"
    /\ col' = IF col = width - 1 THEN 0 ELSE col + 1
    /\ row' = IF col = width - 1 /\ row > 0 THEN row - 1 ELSE row
    /\ ticks' = IF col = width - 1 /\ row = 0 THEN ticks + 1 ELSE ticks
    /\ twin' = IF twin.on
               THEN TwinCell(twin, col, row,
                             CellDraws(particles, clock, x_ord_hack(clock, col), row),
                             lastOp'.d)
               ELSE twin
    /\ UNCHANGED <<width, height, clock, paints>>

\* A call of World::set_pixel between two ticks, with any coordinate (the
\* column `width` and the row `height` are outside the grid) and any kind.
SetPixel ==
    /\ pc = "idle"
    /\ paints < MaxPaints
    /\ \E x \in 0 .. width, y \in 0 .. height, kind \in Kinds :
        /\ particles' = set_pixel(particles, clock, x, y, kind)
        /\ lastOp' = [NoOp EXCEPT !.op = "set_pixel", !.x = x, !.y = y, !.kind = kind,
                                  !.old = At(particles, x, y).kind]
        /\ acc' = set_pixel_reads(x, y, kind)
        /\ hist' = IF InGrid(x, y) /\ particles'[y][x] # particles[y][x]
                   THEN [hist EXCEPT ![y][x] = ZeroHist] ELSE hist
    /\ paints' = paints + 1
    /\ UNCHANGED <<width, height, clock, pc, row, col, ticks, arrivals, twin>>

Next == UpdateBegin \/ UpdateCell \/ SetPixel

Spec == Init /\ [][Next]_vars

WideBegin == Begin(WideTicks)

\* The grid is painted, then updated.
SetPixelFirst == ticks = 0 /\ SetPixel

NextWide == WideBegin \/ UpdateCell \/ SetPixelFirst

SpecWide == InitWide /\ [][NextWide]_vars

\* Calls of update only.
NextTicks == UpdateBegin \/ UpdateCell

SpecStasis == InitStasis /\ [][NextTicks]_vars

SpecScenario == InitScenario /\ [][NextTicks]_vars

FlowBegin == Begin(FlowTicks)

NextFlow == FlowBegin \/ UpdateCell

SpecFlow == InitFlow /\ [][NextFlow]_vars

MirrorBegin == Begin(MirrorTicks)

NextMirror == MirrorBegin \/ UpdateCell

SpecMirror == InitMirror /\ [][NextMirror]_vars

FallBegin == Begin(FallTicks)

NextFall == FallBegin \/ UpdateCell

SpecFall == InitFall /\ [][NextFall]_vars

----------------------------------------------------------------------------
\* Properties.

\* The number of non-Empty cells.
Mass(g) == Cardinality({c \in Cells : ~empty(g[c[2]][c[1]])})

\* The state right after the last iteration of a call of update.
TickJustEnded == pc = "idle" /\ lastOp.op \in {"cell", "skip"}

\* C1: mass conservation. No step of update changes the number of non-Empty
\* cells, whatever the random draws; the count changes in set_pixel steps only.
MassConserved ==
    [][lastOp'.op # "set_pixel" => Mass(particles') = Mass(particles)]_vars

\* A tick has ended in which a particle moved while two particles were on
\* the grid.
MassConservedWitness ==
    /\ TickJustEnded
    /\ Mass(particles) = 2
    /\ \E c \in Cells : hist[c[2]][c[1]].moves >= 1

\* C2 as stated: no particle changes cell more than once in a tick, counting
\* the exchanges another particle makes with it.
DisplacedAtMostOnce ==
    \A c \in Cells : ~empty(particles[c[2]][c[1]]) => hist[c[2]][c[1]].moves <= 1

\* C2 amended: in one tick every particle makes at most one move of its own
\* rule; Sand and Gravel change cell only by their own move (so at most
\* once), Stone never; only Water is displaced further, by exchanges.
OwnMoveAtMostOnce ==
    \A c \in Cells :
        LET p == particles[c[2]][c[1]]
            h == hist[c[2]][c[1]]
        IN  /\ h.own <= 1
            /\ p.kind \in {"Sand", "Gravel"} => h.moves = h.own
            /\ p.kind = "Stone" => h.moves = 0

\* A Water particle that moved by its own rule and was then exchanged
\* upwards by a sinking Sand or Gravel particle, in the same tick.
OwnMoveAtMostOnceWitness ==
    \E c \in Cells :
        /\ particles[c[2]][c[1]].kind = "Water"
        /\ hist[c[2]][c[1]].own = 1
        /\ hist[c[2]][c[1]].moves = 2

\* C3 as stated: after a completed tick every cell's touched equals clock.
TouchedEqualsClock ==
    TickJustEnded =>
        \A c \in Cells : particles[c[2]][c[1]].touched = clock

\* C3 amended: after a completed tick every cell's touched equals clock,
\* except that an Empty cell may carry the touched = false of
\* Particle::default(), which Water leaves in the cell it moves out of.
TouchedEqualsClockOrDefault ==
    TickJustEnded =>
        \A c \in Cells :
            LET p == particles[c[2]][c[1]]
            IN  p.touched = clock \/ (empty(p) /\ p.touched = FALSE)

\* A tick with new parity true has ended, a Water particle moved in it, and a
\* cell is left Empty with touched = false.
TouchedEqualsClockOrDefaultWitness ==
    /\ TickJustEnded
    /\ clock = TRUE
    /\ \E c \in Cells : particles[c[2]][c[1]].kind = "Water" /\ hist[c[2]][c[1]].own = 1
    /\ \E c \in Cells : particles[c[2]][c[1]] = [kind |-> "Empty", touched |-> FALSE]

\* C4 as stated: in one tick no cell is the destination of more than one move.
NoCellEnteredTwice ==
    \A c \in Cells : arrivals[c[2]][c[1]].w + arrivals[c[2]][c[1]].s <= 1

\* C4 amended: in one tick a cell is the destination of at most one Water
\* move and of at most one Sand or Gravel move, and of both only when the
\* Sand or Gravel sank into the Water that had entered the cell.
NoCellEnteredTwiceBySameRule ==
    \A c \in Cells :
        LET a == arrivals[c[2]][c[1]]
        IN  /\ a.w <= 1
            /\ a.s <= 1
            /\ (a.w + a.s = 2 /\ lastOp.op # "set_pixel") =>
                    particles[c[2]][c[1]].kind \in {"Sand", "Gravel"}

\* A cell that a Water move and then a Sand or Gravel move entered.
NoCellEnteredTwiceBySameRuleWitness ==
    \E c \in Cells : arrivals[c[2]][c[1]] = [w |-> 1, s |-> 1]

\* set_pixel(x, y, kind) is rejected on grid g.
Rejected(g, x, y, kind) ==
    ~InGrid(x, y) \/ (kind # "Empty" /\ ~empty(g[y][x]))

\* C5: a rejected set_pixel (a coordinate outside the grid, or a non-Empty
\* kind on a non-Empty cell) changes no cell's kind, no cell's touched and
\* not the clock.
RejectedPaintIsNoOp ==
    [][(lastOp'.op = "set_pixel"
        /\ Rejected(particles, lastOp'.x, lastOp'.y, lastOp'.kind))
       => (particles' = particles /\ clock' = clock)]_vars

\* A non-Empty kind was painted on a cell holding another non-Empty kind.
RejectedPaintIsNoOpWitness ==
    /\ lastOp.op = "set_pixel"
    /\ InGrid(lastOp.x, lastOp.y)
    /\ lastOp.kind # "Empty"
    /\ lastOp.old \notin {"Empty", lastOp.kind}
    /\ particles[lastOp.y][lastOp.x].kind = lastOp.old

\* C6: after set_pixel with kind Empty on a coordinate of the grid the cell
\* is Empty, whatever it held and whatever the clock.
EraseSucceeds ==
    (lastOp.op = "set_pixel" /\ lastOp.kind = "Empty" /\ InGrid(lastOp.x, lastOp.y))
        => empty(particles[lastOp.y][lastOp.x])

\* An erase of a cell that held Water, after a tick (the clock is true).
EraseSucceedsWitness ==
    /\ lastOp.op = "set_pixel"
    /\ lastOp.kind = "Empty"
    /\ InGrid(lastOp.x, lastOp.y)
    /\ lastOp.old = "Water"
    /\ clock = TRUE
    /\ empty(particles[lastOp.y][lastOp.x])

\* The cell (x, y) holds Sand or Gravel and the three cells below it (straight
\* and both diagonals) are in the grid and hold Stone.
StasisAt(g, x, y) ==
    /\ InGrid(x - 1, y + 1)
    /\ InGrid(x + 1, y + 1)
    /\ g[y][x].kind \in {"Sand", "Gravel"}
    /\ g[y + 1][x - 1].kind = "Stone"
    /\ g[y + 1][x].kind = "Stone"
    /\ g[y + 1][x + 1].kind = "Stone"

\* The move of the last step took a particle out of or into the cell c.
MoveInvolves(op, c) ==
    /\ op.op = "cell"
    /\ op.mv.type # "stay"
    /\ (c = <<op.x, op.y>> \/ c = <<op.mv.dx, op.mv.dy>>)

\* C7: stasis. No step of update moves a Sand or Gravel particle that has
\* Stone below it and on both diagonals below it, or moves anything into its
\* cell, and the step leaves the three Stone in place: the particle stays
\* in its cell over any number of ticks, whatever the draws and the rest of
\* the grid.
Stasis ==
    [][\A c \in Cells :
         (StasisAt(particles, c[1], c[2]) /\ lastOp'.op # "set_pixel")
         => /\ particles'[c[2]][c[1]].kind = particles[c[2]][c[1]].kind
            /\ StasisAt(particles', c[1], c[2])
            /\ ~MoveInvolves(lastOp', c)]_vars

\* Two ticks have ended, the particle on the Stone is still there and another
\* particle moved in the last tick.
StasisWitness ==
    /\ TickJustEnded
    /\ ticks >= 2
    /\ StasisAt(particles, 1, 1)
    /\ hist[1][1].moves = 0
    /\ \E c \in Cells : hist[c[2]][c[1]].moves >= 1

\* The only non-Empty cell of g is (x, y), and it holds Sand.
OnlySandAt(g, x, y) ==
    \A c \in Cells : g[c[2]][c[1]].kind = IF c = <<x, y>> THEN "Sand" ELSE "Empty"

\* C8: straight fall. From one Sand at (2, 0) on an otherwise Empty grid, after
\* k <= height - 1 ticks the Sand is at (2, k) and every other cell is Empty.
StraightFall ==
    (pc = "idle" /\ ticks <= height - 1) => OnlySandAt(particles, 2, ticks)

\* Four ticks have ended and the Sand is at (2, 4).
StraightFallWitness ==
    /\ TickJustEnded
    /\ ticks = 4
    /\ height >= 5
    /\ particles[4][2].kind = "Sand"

\* Row 1 of the scenario is all Stone and row 2 all Empty.
ScenarioRest(g) ==
    \A x \in 0 .. 2 : g[1][x].kind = "Stone" /\ g[2][x].kind = "Empty"

\* C9 as stated: after one tick of the scenario the Water has left (0, 0) for
\* another cell of row 0 and the Stone row is unchanged.
ScenarioWaterMoves ==
    (TickJustEnded /\ ticks = 1) =>
        /\ particles[0][0].kind # "Water"
        /\ \E x \in 1 .. 2 : particles[0][x].kind = "Water"
        /\ ScenarioRest(particles)

\* C9 amended: the iteration on the Water moves it to (1, 0) when the sign
\* drawn for the lateral candidate is -1 (gen::<bool>() false, new_x4 = 1)
\* and leaves it at (0, 0) otherwise; after the tick the Water is at (0, 0) or
\* at (1, 0), alone in row 0, and the Stone row is unchanged.
ScenarioWaterStaysOrSteps ==
    /\ (lastOp.op = "cell" /\ lastOp.kind = "Water" /\ ticks = 0) =>
            lastOp.mv = IF lastOp.d.b4 = FALSE THEN Overwrite(1, 0) ELSE Stay
    /\ (TickJustEnded /\ ticks = 1) =>
            /\ \E x \in 0 .. 1 :
                  \A x2 \in 0 .. 2 :
                      particles[0][x2].kind = IF x2 = x THEN "Water" ELSE "Empty"
            /\ ScenarioRest(particles)

\* The first tick has ended with the Water at (1, 0).
ScenarioWaterStaysOrStepsWitness ==
    /\ TickJustEnded
    /\ ticks = 1
    /\ particles[0][1].kind = "Water"
    /\ hist[0][1].own = 1

\* C10: no access outside the grid. Every index update and set_pixel read or
\* write is a cell of the grid, and no call panics on an index.
NoOutOfBounds ==
    /\ pc # "panic"
    /\ \A p \in acc : InGrid(p[1], p[2])

\* Water in the left column of the top row whose first candidate was drawn off
\* the grid (to the left) and whose third candidate was drawn 4 columns to the
\* right: the stepping stone check_x5 = 3 of the row below was read.
NoOutOfBoundsWitness ==
    /\ pc # "panic"
    /\ lastOp.op = "cell"
    /\ lastOp.kind = "Water"
    /\ lastOp.x = 0
    /\ lastOp.y = 0
    /\ lastOp.d.b1 = FALSE
    /\ lastOp.d.n5 = 4
    /\ <<3, 1>> \in acc

\* The last step took a movement candidate.
Moved(op) == op.op = "cell" /\ op.mv.type # "stay"

\* The contents of the source cell when the candidate is taken: the kind of
\* g[y][x] with touched already set to the clock c.
Source(g, c, x, y) == [kind |-> g[y][x].kind, touched |-> c]

\* C12 as stated: whenever a Sand, Gravel or Water particle takes a movement
\* candidate, the destination ends with the source's former contents and the
\* source with the destination's former contents, kind and touched.
EveryMoveIsExchange ==
    [][Moved(lastOp') =>
        LET x == lastOp'.x
            y == lastOp'.y
            dx == lastOp'.mv.dx
            dy == lastOp'.mv.dy
        IN  /\ particles'[dy][dx] = Source(particles, clock, x, y)
            /\ particles'[y][x] = particles[dy][dx]]_vars

\* C12 amended: a Sand or Gravel move is a full exchange of the two cells; a
\* Water move copies the source into the destination, which held Empty, and
\* resets the source to Particle::default(), Empty with touched = false
\* whatever touched the destination had; no other cell changes.
MoveIsExchangeOrReset ==
    [][Moved(lastOp') =>
        LET x == lastOp'.x
            y == lastOp'.y
            dx == lastOp'.mv.dx
            dy == lastOp'.mv.dy
        IN  /\ particles'[dy][dx] = Source(particles, clock, x, y)
            /\ lastOp'.kind \in {"Sand", "Gravel"} =>
                    particles'[y][x] = particles[dy][dx]
            /\ lastOp'.kind = "Water" =>
                    /\ particles[dy][dx].kind = "Empty"
                    /\ particles'[y][x] = [kind |-> "Empty", touched |-> FALSE]
            /\ \A c \in Cells \ {<<x, y>>, <<dx, dy>>} :
                    particles'[c[2]][c[1]] = particles[c[2]][c[1]]]_vars

\* Water has just moved down into a cell of a row already scanned in a tick
\* with clock = true, and the cell it left is Empty with touched = false.
MoveIsExchangeOrResetWitness ==
    /\ Moved(lastOp)
    /\ lastOp.kind = "Water"
    /\ lastOp.mv.dy = lastOp.y + 1
    /\ clock = TRUE
    /\ particles[lastOp.mv.dy][lastOp.mv.dx] = [kind |-> "Water", touched |-> TRUE]
    /\ particles[lastOp.y][lastOp.x] = [kind |-> "Empty", touched |-> FALSE]

Abs(n) == IF n < 0 THEN -n ELSE n

\* The column next to dx on the side of x.
Closer(x, dx) == IF dx > x THEN dx - 1 ELSE dx + 1

\* C13 as stated: a Water move of two or more columns ends one row below its
\* source, in a cell that was Empty, and the cell of that lower row one column
\* closer to the source held Water; a Water move that stays in its row
\* changes the column by exactly 1.
FarWaterMovesGoDown ==
    [][(Moved(lastOp') /\ lastOp'.kind = "Water") =>
        LET x == lastOp'.x
            y == lastOp'.y
            dx == lastOp'.mv.dx
            dy == lastOp'.mv.dy
        IN  /\ Abs(dx - x) >= 2 =>
                    /\ dy = y + 1
                    /\ particles[dy][dx].kind = "Empty"
                    /\ particles[dy][Closer(x, dx)].kind = "Water"
            /\ dy = y => Abs(dx - x) = 1]_vars

\* C13 amended: a Water move of two or more columns ends in a cell that was
\* Empty, and the cell of the row below the source one column closer to the
\* source than the destination held Water; it ends one row below the source
\* only when it is the first candidate at distance 2, and in the source's own
\* row when it is the third candidate (2, 3 or 4 columns). A Water move that
\* stays in its row changes the column by 1 to 4; one that goes a row down
\* changes it by 0 to 2.
WaterMoveShape ==
    [][(Moved(lastOp') /\ lastOp'.kind = "Water") =>
        LET x == lastOp'.x
            y == lastOp'.y
            dx == lastOp'.mv.dx
            dy == lastOp'.mv.dy
        IN  /\ particles[dy][dx].kind = "Empty"
            /\ Abs(dx - x) >= 2 =>
                    /\ y + 1 < height
                    /\ particles[y + 1][Closer(x, dx)].kind = "Water"
            /\ \/ dy = y + 1 /\ Abs(dx - x) <= 2
               \/ dy = y /\ Abs(dx - x) \in 1 .. 4
            /\ Abs(dx - x) >= 3 => dy = y]_vars

\* Water has just moved 4 columns along the top row, over a Stone.
WaterMoveShapeWitness ==
    /\ Moved(lastOp)
    /\ lastOp.kind = "Water"
    /\ lastOp.x = 0
    /\ lastOp.y = 0
    /\ lastOp.mv = Overwrite(4, 0)
    /\ particles[0][1].kind = "Stone"
    /\ particles[0][4].kind = "Water"

\* C14: a Sand or Gravel particle that is processed with Empty or Water
\* directly below it swaps with that cell (the Water ends above it); a Sand
\* particle moves diagonally only when the cell below it is neither.
SinksThroughWater ==
    [][(lastOp'.op = "cell" /\ lastOp'.kind \in {"Sand", "Gravel"}) =>
        LET x == lastOp'.x
            y == lastOp'.y
            mv == lastOp'.mv
        IN  /\ (y + 1 < height /\ particles[y + 1][x].kind \in {"Empty", "Water"}) =>
                    /\ mv = Swap(x, y + 1)
                    /\ particles'[y + 1][x].kind = lastOp'.kind
                    /\ particles'[y][x].kind = particles[y + 1][x].kind
            /\ (mv.type # "stay" /\ mv.dx # x) =>
                    /\ lastOp'.kind = "Sand"
                    /\ y + 1 < height
                    /\ particles[y + 1][x].kind \notin {"Empty", "Water"}]_vars

\* A Sand has just swapped with the Water below it.
SinksThroughWaterWitness ==
    /\ Moved(lastOp)
    /\ lastOp.kind = "Sand"
    /\ lastOp.mv = Swap(lastOp.x, lastOp.y + 1)
    /\ particles[lastOp.y + 1][lastOp.x].kind = "Sand"
    /\ particles[lastOp.y][lastOp.x].kind = "Water"

GravelCount(g, x) == Cardinality({y \in 0 .. height - 1 : g[y][x].kind = "Gravel"})

\* C15: no step of update changes the number of Gravel particles of any
\* column, so a Gravel particle never changes column.
GravelKeepsColumn ==
    [][lastOp'.op # "set_pixel" =>
        \A x \in 0 .. width - 1 :
            GravelCount(particles', x) = GravelCount(particles, x)]_vars

\* A Gravel resting on a Stone has just been processed and stayed, with a
\* free cell diagonally below it where a Sand would have gone.
GravelKeepsColumnWitness ==
    /\ lastOp.op = "cell"
    /\ lastOp.kind = "Gravel"
    /\ lastOp.mv = Stay
    /\ lastOp.y + 1 < height
    /\ lastOp.x + 1 < width
    /\ particles[lastOp.y][lastOp.x].kind = "Gravel"
    /\ particles[lastOp.y + 1][lastOp.x].kind = "Stone"
    /\ particles[lastOp.y + 1][lastOp.x + 1].kind = "Empty"

StoneCells(g) ==
    {p \in (0 .. width - 1) \X (0 .. height - 1) : g[p[2]][p[1]].kind = "Stone"}

\* C16: no step of update moves, creates or removes a Stone: the set of
\* cells holding Stone is the same after the step as before it.
StoneNeverMoves ==
    [][lastOp'.op # "set_pixel" => StoneCells(particles') = StoneCells(particles)]_vars

\* A Sand has just slid diagonally onto the Stone floor, next to a Stone.
StoneNeverMovesWitness ==
    /\ Moved(lastOp)
    /\ lastOp.kind = "Sand"
    /\ lastOp.mv.dx # lastOp.x
    /\ lastOp.mv.dy + 1 < height
    /\ particles[lastOp.mv.dy][lastOp.mv.dx].kind = "Sand"
    /\ particles[lastOp.mv.dy + 1][lastOp.mv.dx].kind = "Stone"
    /\ \E x \in 0 .. width - 1 : particles[lastOp.mv.dy][x].kind = "Stone"

Visit(op) == op.op \in {"cell", "skip"}

\* First and last column of a scan under the parity c, and its step.
FirstX(c) == IF c THEN 0 ELSE width - 1
LastX(c) == IF c THEN width - 1 ELSE 0
StepX(c) == IF c THEN 1 ELSE -1

\* C17: a call of update flips the parity flag once, at its start, and no
\* other step (a visit of a cell, a call of set_pixel) changes it; the scan
\* starts in the bottom row, visits each row in ascending x when the flag is
\* true and in descending x when it is false, goes on with the row above and
\* ends after the last column of the top row.
ScanDiscipline ==
    [][/\ lastOp'.op = "begin" => clock' = ~clock
       /\ lastOp'.op # "begin" => clock' = clock
       /\ Visit(lastOp') =>
            IF lastOp.op = "begin"
            THEN lastOp'.x = FirstX(clock) /\ lastOp'.y = height - 1
            ELSE /\ Visit(lastOp)
                 /\ IF lastOp.x = LastX(clock)
                    THEN lastOp'.x = FirstX(clock) /\ lastOp'.y = lastOp.y - 1
                    ELSE lastOp'.x = lastOp.x + StepX(clock) /\ lastOp'.y = lastOp.y
       /\ (pc = "scan" /\ pc' = "idle") =>
            lastOp'.x = LastX(clock) /\ lastOp'.y = 0
       /\ (Visit(lastOp) /\ ~Visit(lastOp')) => pc = "idle"]_vars

\* The second tick, scanned in descending x, has just ended at the top left
\* cell.
ScanDisciplineWitness ==
    /\ pc = "idle"
    /\ ticks = 2
    /\ clock = FALSE
    /\ Visit(lastOp)
    /\ lastOp.x = 0
    /\ lastOp.y = 0

\* C18: an accepted set_pixel (a coordinate of the grid, and kind Empty or an
\* Empty target) leaves in the target cell the given kind and a touched equal
\* to the clock, and changes no other cell and not the clock.
AcceptedPaintEffect ==
    [][(lastOp'.op = "set_pixel"
        /\ ~Rejected(particles, lastOp'.x, lastOp'.y, lastOp'.kind))
       => /\ particles'[lastOp'.y][lastOp'.x] =
                [kind |-> lastOp'.kind, touched |-> clock]
          /\ \A p \in Cells : p # <<lastOp'.x, lastOp'.y>> =>
                particles'[p[2]][p[1]] = particles[p[2]][p[1]]
          /\ clock' = clock]_vars

\* Sand was painted on an Empty cell after a tick (the clock is true), next
\* to a particle painted before the tick.
AcceptedPaintEffectWitness ==
    /\ lastOp.op = "set_pixel"
    /\ InGrid(lastOp.x, lastOp.y)
    /\ lastOp.kind = "Sand"
    /\ lastOp.old = "Empty"
    /\ clock = TRUE
    /\ particles[lastOp.y][lastOp.x] = [kind |-> "Sand", touched |-> TRUE]
    /\ \E p \in Cells : p # <<lastOp.x, lastOp.y>> /\ ~empty(particles[p[2]][p[1]])

\* C19: between calls every non-Empty cell's touched equals the clock, and
\* in a tick the rule of every Sand, Gravel and Water particle is applied
\* exactly once: never twice while the scan runs, once when it has ended.
ProcessedExactlyOnce ==
    \A c \in Cells :
        LET p == particles[c[2]][c[1]]
            h == hist[c[2]][c[1]]
        IN  /\ (pc = "idle" /\ ~empty(p)) => p.touched = clock
            /\ p.kind \in {"Sand", "Gravel", "Water"} => h.proc <= 1
            /\ (TickJustEnded /\ p.kind \in {"Sand", "Gravel", "Water"}) => h.proc = 1

\* In the second tick the scan has just skipped a Water particle that had
\* moved ahead of it, so that its rule was applied once.
ProcessedExactlyOnceWitness ==
    /\ ticks >= 1
    /\ lastOp.op = "skip"
    /\ lastOp.kind = "Water"
    /\ hist[lastOp.y][lastOp.x].own = 1
    /\ hist[lastOp.y][lastOp.x].proc = 1

Kind(g) == [y \in 0 .. height - 1 |-> [x \in 0 .. width - 1 |-> g[y][x].kind]]

\* C20: a tick on a grid and a tick on its mirror image with the opposite
\* clock, the same distance draws and the opposite sign draws consume the
\* same draws at every iteration and leave kinds that are mirror images of
\* each other, at every iteration and so when the tick has ended.
MirrorSymmetry ==
    twin.on => (twin.sync /\ Kind(twin.particles) = Mirror(Kind(particles)))

\* A tick has ended on a grid that is not its own mirror image and in which
\* a Water particle moved sideways by its own rule.
MirrorSymmetryWitness ==
    /\ twin.on
    /\ TickJustEnded
    /\ Kind(particles) # Mirror(Kind(particles))
    /\ Kind(twin.particles) = Mirror(Kind(particles))
    /\ \E c \in Cells :
        /\ particles[c[2]][c[1]].kind = "Water"
        /\ hist[c[2]][c[1]].own = 1
        /\ arrivals[c[2]][c[1]].w = 1
        /\ c[2] = 0

====
